---- MODULE Spec2Model ----
(***************************************************************************)
(* MEW_gcode_render: the line tokenizer (gcode_reader.py) and the stateful *)
(* interpreter GeometryParser (geometry_parser.py).                         *)
(*                                                                         *)
(* Text is a sequence of one-character strings.  A Python number is an     *)
(* integer count of tenths (10 stands for 1.0), so that a text with one    *)
(* fractional digit has an exact value; the bool True is [b |-> TRUE] with *)
(* the numeric value 1.0, as Python computes with it.  A dict is a         *)
(* function whose DOMAIN is the set of its keys.                           *)
(***************************************************************************)
EXTENDS Integers, Sequences, FiniteSets, TLC

VARIABLES position, positionSystem, feedrate, geometry,
          x_axis, y_axis, z_axis, lineCount, x,
          curve, num_points, points,
          call, trajectory,
          segment

vars == <<position, positionSystem, feedrate, geometry,
          x_axis, y_axis, z_axis, lineCount, x,
          curve, num_points, points, call, trajectory, segment>>

(***************************************************************************)
(* Characters and the str methods the tokenizer uses.                      *)
(***************************************************************************)
Digits == <<"0", "1", "2", "3", "4", "5", "6", "7", "8", "9">>

LowerLetters == <<"a", "b", "c", "d", "e", "f", "g", "h", "i", "j", "k", "l", "m",
                  "n", "o", "p", "q", "r", "s", "t", "u", "v", "w", "x", "y", "z">>

UpperLetters == <<"A", "B", "C", "D", "E", "F", "G", "H", "I", "J", "K", "L", "M",
                  "N", "O", "P", "Q", "R", "S", "T", "U", "V", "W", "X", "Y", "Z">>

Range(f) == {f[k] : k \in DOMAIN f}

IndexOf(seq, c) == CHOOSE k \in DOMAIN seq : seq[k] = c

IsDigit(c) == c \in Range(Digits)

DigitVal(c) == IndexOf(Digits, c) - 1

IsSpace(c) == c = " "

lower(s) == [k \in DOMAIN s |->
               IF s[k] \in Range(UpperLetters)
               THEN LowerLetters[IndexOf(UpperLetters, s[k])] ELSE s[k]]

upper(s) == [k \in DOMAIN s |->
               IF s[k] \in Range(LowerLetters)
               THEN UpperLetters[IndexOf(LowerLetters, s[k])] ELSE s[k]]

\* str.split(sep) for a one-character separator: the pieces between the separators
RECURSIVE split(_, _)
split(s, sep) ==
  IF \A k \in DOMAIN s : s[k] # sep
  THEN <<s>>
  ELSE LET k == CHOOSE k \in DOMAIN s :
                  s[k] = sep /\ \A m \in 1..(k - 1) : s[m] # sep
       IN <<SubSeq(s, 1, k - 1)>> \o split(SubSeq(s, k + 1, Len(s)), sep)

\* sep.join(parts)
RECURSIVE join(_, _)
join(parts, sep) ==
  IF Len(parts) = 0 THEN <<>>
  ELSE IF Len(parts) = 1 THEN parts[1]
  ELSE parts[1] \o <<sep>> \o join(Tail(parts), sep)

\* str.strip(): without the leading and trailing whitespace
strip(s) ==
  LET keep == {k \in DOMAIN s : ~IsSpace(s[k])}
  IN IF keep = {} THEN <<>>
     ELSE SubSeq(s, CHOOSE k \in keep : \A m \in keep : k <= m,
                    CHOOSE k \in keep : \A m \in keep : k >= m)

\* the length of the run of digits of s that starts at index p
RECURSIVE DigitRun(_, _)
DigitRun(s, p) ==
  IF p <= Len(s) /\ IsDigit(s[p]) THEN 1 + DigitRun(s, p + 1) ELSE 0

\* the value of a text of digits
RECURSIVE DigitsVal(_)
DigitsVal(ds) ==
  IF Len(ds) = 0 THEN 0
  ELSE 10 * DigitsVal(SubSeq(ds, 1, Len(ds) - 1)) + DigitVal(ds[Len(ds)])

(***************************************************************************)
(* Python values: a number (in tenths), the bool True, a str, or None.     *)
(***************************************************************************)
Num(n) == [t |-> "num", v |-> n, s |-> <<>>]
True == [t |-> "bool", v |-> 10, s |-> <<>>]
Str(txt) == [t |-> "str", v |-> 0, s |-> txt]
NoneV == [t |-> "none", v |-> 0, s |-> <<>>]

\* None where a text is expected (GcodeCommand.cmd, GcodeCommand.comment): a
\* text is a sequence of single characters, so no text equals it
None == <<"None">>

\* a + b of two Python numbers (True counts as 1)
PyAdd(a, c) == Num(a.v + c.v)

\* a or 0
OrZero(a) == IF a.t = "none" \/ (a.t = "num" /\ a.v = 0) THEN Num(0) ELSE a

\* float(text) of a text sign? digits? (. digits)?, in tenths (the texts given
\* have at most one digit after the point)
FloatVal(sign, ip, fp) ==
  LET mag == 10 * DigitsVal(ip) + (IF Len(fp) = 0 THEN 0 ELSE DigitVal(fp[1]))
  IN IF sign = "-" THEN 0 - mag ELSE mag

\* float(raw) of a stripped text: [ok |-> FALSE] stands for ValueError.  The
\* forms with an exponent, "inf" and "nan" are not among the texts given.
float(raw) ==
  LET hasSign == Len(raw) >= 1 /\ raw[1] \in {"+", "-"}
      p == IF hasSign THEN 2 ELSE 1
      d1 == DigitRun(raw, p)
      dot == p + d1 <= Len(raw) /\ raw[p + d1] = "."
      d2 == IF dot THEN DigitRun(raw, p + d1 + 1) ELSE 0
      end == IF dot THEN p + d1 + d2 ELSE p + d1 - 1
  IN IF d1 + d2 >= 1 /\ end = Len(raw)
     THEN [ok |-> TRUE,
           v |-> FloatVal(IF hasSign THEN raw[1] ELSE "+",
                          SubSeq(raw, p, p + d1 - 1),
                          SubSeq(raw, p + d1 + 1, p + d1 + d2))]
     ELSE [ok |-> FALSE, v |-> 0]

(***************************************************************************)
(* gcode_reader.py                                                         *)
(***************************************************************************)
default_case_transform_fn(key) == key

\* dict.update: the keys of obj overwrite those of result
update(result, obj) ==
  [k \in (DOMAIN result) \cup (DOMAIN obj) |->
     IF k \in DOMAIN obj THEN obj[k] ELSE result[k]]

\* one piece of the comment: the one-entry dict it appends to array_obj, or
\* the empty dict when it holds no ":"
comment_tag_piece(c) ==
  LET comment_tag_args == lower(c)
  IN IF ":" \in Range(comment_tag_args)
     THEN LET comment_tag_key_value == split(comment_tag_args, ":")
              key == default_case_transform_fn(strip(comment_tag_key_value[1]))
              raw_value == strip(comment_tag_key_value[2])
              f == float(raw_value)
              value == IF f.ok THEN Num(f.v) ELSE Str(raw_value)
          IN (key :> value)
     ELSE <<>>

RECURSIVE merge_tags(_, _)
merge_tags(pieces, result) ==
  IF Len(pieces) = 0 THEN result
  ELSE merge_tags(Tail(pieces), update(result, comment_tag_piece(pieces[1])))

parse_comment_tag(comment) ==
  IF Len(comment) > 0 THEN merge_tags(split(comment, ","), <<>>) ELSE <<>>

\* re.search(r"[GM]\d+", s): the first match, or None
command_search(s) ==
  LET hits == {k \in DOMAIN s : s[k] \in {"G", "M"} /\ DigitRun(s, k + 1) >= 1}
  IN IF hits = {} THEN None
     ELSE LET k == CHOOSE k \in hits : \A m \in hits : k <= m
          IN SubSeq(s, k, k + DigitRun(s, k + 1))

\* a substitution that removes nothing
command_sub_Keeps(s) == s

\* re.sub(r"[gm]\d+", "", s)
RECURSIVE command_sub(_)
command_sub(s) ==
  IF Len(s) = 0 THEN <<>>
  ELSE IF s[1] \in {"g", "m"} /\ DigitRun(s, 2) >= 1
       THEN command_sub(SubSeq(s, 2 + DigitRun(s, 2), Len(s)))
       ELSE <<s[1]>> \o command_sub(Tail(s))

\* the length of the run of whitespace of s that starts at index p
RECURSIVE SpaceRun(_, _)
SpaceRun(s, p) ==
  IF p <= Len(s) /\ IsSpace(s[p]) THEN 1 + SpaceRun(s, p + 1) ELSE 0

\* the match of \s*([+-]?([0-9]*[.])?[0-9]+) right after index k of s
axis_number(s, k) ==
  LET q == k + 1 + SpaceRun(s, k + 1)
      hasSign == q <= Len(s) /\ s[q] \in {"+", "-"}
      p == IF hasSign THEN q + 1 ELSE q
      d1 == DigitRun(s, p)
      dot == p + d1 <= Len(s) /\ s[p + d1] = "."
      d2 == IF dot THEN DigitRun(s, p + d1 + 1) ELSE 0
      sign == IF hasSign THEN s[q] ELSE "+"
  IN IF dot /\ d2 >= 1
     THEN [ok |-> TRUE,
           v |-> FloatVal(sign, SubSeq(s, p, p + d1 - 1),
                          SubSeq(s, p + d1 + 1, p + d1 + d2))]
     ELSE IF d1 >= 1
          THEN [ok |-> TRUE, v |-> FloatVal(sign, SubSeq(s, p, p + d1 - 1), <<>>)]
          ELSE [ok |-> FALSE, v |-> 0]

\* re.search(rf"{axis}\s*([+-]?([0-9]*[.])?[0-9]+)", s): the matches' starts
axis_hits(s, axis) == {k \in DOMAIN s : s[k] = axis /\ axis_number(s, k).ok}

\* the args of a line: a float for a letter followed by a number, True for a
\* letter without one
parse_args(gcode_arg_string) ==
  [axis \in {a \in Range(LowerLetters) : a \in Range(gcode_arg_string)} |->
     LET hits == axis_hits(gcode_arg_string, axis)
     IN IF hits # {}
        THEN Num(axis_number(gcode_arg_string,
                             CHOOSE k \in hits : \A m \in hits : k <= m).v)
        ELSE True]

parse_gcode(gcode) ==
  LET comment_splits == split(gcode, ";")
      gcode_without_comment == comment_splits[1]
      hasComment == Len(comment_splits) > 1
      comment == strip(join(Tail(comment_splits), ";"))
  IN [cmd |-> command_search(upper(gcode_without_comment)),
      args |-> parse_args(command_sub(lower(gcode_without_comment))),
      comment |-> IF hasComment THEN comment ELSE None,
      tag |-> IF hasComment THEN parse_comment_tag(comment) ELSE <<>>]

\* GcodeCommand(): the blank command
GcodeCommand == [cmd |-> None, args |-> <<>>, comment |-> None, tag |-> <<>>]

(***************************************************************************)
(* geometry_parser.py                                                      *)
(***************************************************************************)
ABSOLUTE == "ABSOLUTE"
RELATIVE == "RELATIVE"

\* the keys of self.position, and its first value as a point
Axes == {"x", "y", "z"}

Origin == <<Num(0), Num(0), Num(0)>>

Line(start, end, fr) ==
  [curve |-> "Line", start |-> start, end |-> end, feedrate |-> fr]

Arc(start, end, fr, dir, center) ==
  [curve |-> "Arc", start |-> start, end |-> end, feedrate |-> fr,
   dir |-> dir, center |-> center]

\* dict.get(key, default)
get(args, key, default) == IF key \in DOMAIN args THEN args[key] ELSE default

\* the attribute self.<axis>_axis
axis_key(axis) ==
  CASE axis = "x" -> x_axis
    [] axis = "y" -> y_axis
    [] axis = "z" -> z_axis

isRelativePosition == positionSystem = RELATIVE

isAbsolutePosition == positionSystem = ABSOLUTE

getAxisValue(args, axis) ==
  IF axis_key(axis) \in DOMAIN args THEN args[axis_key(axis)]
  ELSE IF axis \in DOMAIN args THEN args[axis]
  ELSE NoneV

\* getAllAxesValues that takes the parameters as absolute in either mode
getAllAxesValues_IgnoresMode(args) ==
  [a \in {"x", "y", "z"} |->
     IF getAxisValue(args, a) # NoneV THEN getAxisValue(args, a)
     ELSE position[a]]

getAllAxesValues(args) ==
  IF isAbsolutePosition
  THEN [a \in {"x", "y", "z"} |->
          IF getAxisValue(args, a) # NoneV THEN getAxisValue(args, a)
          ELSE position[a]]
  ELSE IF isRelativePosition
  THEN [a \in {"x", "y", "z"} |->
          PyAdd(position[a], OrZero(getAxisValue(args, a)))]
  ELSE [a \in {"x", "y", "z"} |-> Num(0)]

xyz(p) == <<p["x"], p["y"], p["z"]>>

G0(args) ==
  LET prev_position == position
      vals == getAllAxesValues(args)
  IN /\ position' = vals
     /\ geometry' = Append(geometry,
                           Line(xyz(prev_position), xyz(vals),
                                get(args, "f", feedrate)))
     /\ UNCHANGED positionSystem

G1(args) == G0(args)

\* G2 that emits the Arc and leaves self.position where it was
G2_KeepsPosition(args, dir) ==
  LET vals == getAllAxesValues(args)
  IN /\ geometry' = Append(geometry,
                           Arc(xyz(position), xyz(vals),
                               get(args, "f", feedrate), dir,
                               <<get(args, "i", Num(0)), get(args, "j", Num(0))>>))
     /\ UNCHANGED <<position, positionSystem>>

G2(args, dir) ==
  LET prev_position == position
      vals == getAllAxesValues(args)
      center_x == IF isRelativePosition
                  THEN PyAdd(get(args, "i", Num(0)), prev_position["x"])
                  ELSE get(args, "i", Num(0))
      center_y == IF isRelativePosition
                  THEN PyAdd(get(args, "j", Num(0)), prev_position["y"])
                  ELSE get(args, "j", Num(0))
  IN /\ position' = vals
     /\ geometry' = Append(geometry,
                           Arc(xyz(prev_position), xyz(vals),
                               get(args, "f", feedrate), dir,
                               <<center_x, center_y>>))
     /\ UNCHANGED positionSystem

G3(args) == G2(args, "ccw")

\* G90 that sets the mode of G91
G90_SetsRelative(args) ==
  /\ positionSystem' = RELATIVE
  /\ UNCHANGED <<position, geometry>>

G90(args) ==
  /\ positionSystem' = ABSOLUTE
  /\ UNCHANGED <<position, geometry>>

G91(args) ==
  /\ positionSystem' = RELATIVE
  /\ UNCHANGED <<position, geometry>>

\* the names hasattr(self, x.cmd) finds among those a command code can spell
Handlers == {<<"G", "0">>, <<"G", "1">>, <<"G", "2">>, <<"G", "3">>,
             <<"G", "9", "0">>, <<"G", "9", "1">>}

hasattr(cmd) == cmd \in Handlers

\* getattr(self, x.cmd)(x.args)
method(cmd, args) ==
  CASE cmd = <<"G", "0">> -> G0(args)
    [] cmd = <<"G", "1">> -> G1(args)
    [] cmd = <<"G", "2">> -> G2(args, "cw")
    [] cmd = <<"G", "3">> -> G3(args)
    [] cmd = <<"G", "9", "0">> -> G90(args)
    [] cmd = <<"G", "9", "1">> -> G91(args)

CTS == <<"C", "T", "S">>

processComment(tag) ==
  feedrate' = IF CTS \in DOMAIN tag THEN tag[CTS] ELSE feedrate

\* process() that takes a line without a code as a move (a modal G1)
process_ImplicitMove(cmd) ==
  /\ lineCount' = lineCount + 1
  /\ x' = cmd
  /\ IF cmd.cmd # None /\ hasattr(cmd.cmd)
     THEN method(cmd.cmd, cmd.args)
     ELSE IF cmd.cmd = None /\ DOMAIN cmd.args # {}
          THEN G1(cmd.args)
          ELSE UNCHANGED <<position, positionSystem, geometry>>
  /\ IF DOMAIN cmd.tag # {}
     THEN processComment(cmd.tag)
     ELSE UNCHANGED feedrate
  /\ UNCHANGED <<x_axis, y_axis, z_axis>>

\* one turn of the loop of process() over gcode_array
process(cmd) ==
  /\ lineCount' = lineCount + 1
  /\ x' = cmd
  /\ IF cmd.cmd # None /\ hasattr(cmd.cmd)
     THEN method(cmd.cmd, cmd.args)
     ELSE UNCHANGED <<position, positionSystem, geometry>>
  /\ IF DOMAIN cmd.tag # {}
     THEN processComment(cmd.tag)
     ELSE UNCHANGED feedrate
  /\ UNCHANGED <<x_axis, y_axis, z_axis>>

(***************************************************************************)
(* Arc.compute_points (geometry_parser.py).  An angle is a count of        *)
(* quarter turns (1 stands for pi/2): the arcs given have start and end on *)
(* the axes through the center, where atan2, cos and sin are exact.  A     *)
(* sample is the point center + r * (cos, sin)(a / den quarter turns) at   *)
(* the height z / den; its coordinates are numbers of the model when a and *)
(* z are multiples of den.                                                 *)
(***************************************************************************)
pi == 2

abs(n) == IF n < 0 THEN 0 - n ELSE n

\* math.sqrt of a square number
sqrt(n) == CHOOSE r \in 0..n : r * r = n

\* math.atan2(dy, dx) of a vector along an axis, and of the zero vector
atan2(dy, dx) ==
  CASE dy = 0 /\ dx >= 0 -> 0
    [] dy > 0 /\ dx = 0 -> 1
    [] dy = 0 /\ dx < 0 -> 2
    [] dy < 0 /\ dx = 0 -> 0 - 1

\* math.cos and math.sin of q quarter turns
cos(q) == CASE q % 4 = 0 -> 1 [] q % 4 = 2 -> 0 - 1 [] OTHER -> 0

sin(q) == CASE q % 4 = 1 -> 1 [] q % 4 = 3 -> 0 - 1 [] OTHER -> 0

\* [x, y, z] with x = center_x + radius * cos(angle), y likewise with sin:
\* angles that differ by whole turns, and any two angles at radius 0, give
\* the same point
Sample(cx, cy, r, a, den, z) ==
  [cx |-> cx, cy |-> cy, r |-> r,
   a |-> IF r = 0 THEN 0 ELSE a % (4 * den), den |-> den, z |-> z]

\* the sample is a point of the grid of the numbers of the model
OnGrid(p) == p.a % p.den = 0 /\ p.z % p.den = 0

\* the coordinates of a sample on the grid
Coordinates(p) ==
  <<p.cx + p.r * cos(p.a \div p.den), p.cy + p.r * sin(p.a \div p.den),
    p.z \div p.den>>

\* the samples i = 0 .. num_points, t = i / num_points
compute_points(arc, n) ==
  LET center_x == arc.center[1].v
      center_y == arc.center[2].v
      radius == sqrt((arc.start[1].v - center_x) * (arc.start[1].v - center_x)
                     + (arc.start[2].v - center_y) * (arc.start[2].v - center_y))
      start_angle == atan2(arc.start[2].v - center_y, arc.start[1].v - center_x)
      end_angle == atan2(arc.end[2].v - center_y, arc.end[1].v - center_x)
      isCw == arc.dir = "cw"
      diff == end_angle - start_angle
      turned == IF isCw /\ diff > 0 THEN diff - 2 * pi
                ELSE IF ~isCw /\ diff < 0 THEN diff + 2 * pi
                ELSE diff
      \* abs(angleCalc) < 1e-3: of whole quarter turns, only 0 is that small
      angleCalc == IF abs(turned) < 1
                   THEN (IF ~isCw THEN 2 * pi ELSE 0 - 2 * pi)
                   ELSE turned
  IN [k \in 1..(n + 1) |->
        Sample(center_x, center_y, radius,
               start_angle * n + (k - 1) * angleCalc, n,
               arc.start[3].v * n + (k - 1) * (arc.end[3].v - arc.start[3].v))]

(***************************************************************************)
(* create_linespace (gcode_segment.py).  Here a number is a fraction       *)
(* <<n, d>> in lowest terms with d > 0, a position or velocity a triple of *)
(* fractions, and the arrays are sequences.  Every magnitude of the inputs *)
(* given and of what is computed from them is 0 or above 1/1000, far above *)
(* eps and 1e-9, so that a comparison with eps is a comparison with 0.     *)
(***************************************************************************)
RECURSIVE GCD(_, _)
GCD(a, b) == IF b = 0 THEN a ELSE GCD(b, a % b)

Frac(n, d) ==
  LET g == GCD(abs(n), abs(d))
  IN IF d < 0 THEN <<(0 - n) \div g, (0 - d) \div g>>
     ELSE <<n \div g, d \div g>>

Zero == <<0, 1>>

One == <<1, 1>>

FAdd(a, b) == Frac(a[1] * b[2] + b[1] * a[2], a[2] * b[2])

FSub(a, b) == Frac(a[1] * b[2] - b[1] * a[2], a[2] * b[2])

FMul(a, b) == Frac(a[1] * b[1], a[2] * b[2])

FDiv(a, b) == Frac(a[1] * b[2], a[2] * b[1])

FLess(a, b) == a[1] * b[2] < b[1] * a[2]

\* np.floor and np.ceil, as whole numbers
floor(a) == a[1] \div a[2]

\* a ceiling that rounds down
ceil_Floor(a) == a[1] \div a[2]

ceil(a) == 0 - ((0 - a[1]) \div a[2])

\* a < eps and a > eps
BelowEps(a) == ~FLess(Zero, a)

AboveEps(a) == FLess(Zero, a)

VSub(u, v) == [k \in 1..3 |-> FSub(u[k], v[k])]

VAdd(u, v) == [k \in 1..3 |-> FAdd(u[k], v[k])]

VScale(c, v) == [k \in 1..3 |-> FMul(c, v[k])]

ZeroVector == <<Zero, Zero, Zero>>

\* np.linalg.norm of a vector whose length is a fraction
norm(v) ==
  LET sq == FAdd(FMul(v[1], v[1]), FAdd(FMul(v[2], v[2]), FMul(v[3], v[3])))
  IN Frac(sqrt(sq[1]), sqrt(sq[2]))

\* 10 ** np.ceil(np.log10(a)) of a > 0: the least power of ten that is >= a
PowerOfTenAtLeast(a) ==
  LET tens == {<<1, 1000>>, <<1, 100>>, <<1, 10>>, <<1, 1>>, <<10, 1>>,
               <<100, 1>>, <<1000, 1>>}
  IN CHOOSE p \in tens :
       /\ ~FLess(p, a)
       /\ \A q \in tens : ~FLess(q, a) => ~FLess(q, p)

\* the times computed when no usable times are passed: distance / speed of a
\* segment whose speed is above eps, 0 otherwise and for the last position
computed_times(lines, speeds) ==
  [k \in 1..Len(lines) |->
     IF k + 1 <= Len(lines) /\ AboveEps(speeds[k])
     THEN FDiv(norm(VSub(lines[k + 1], lines[k])), speeds[k])
     ELSE Zero]

\* the rows of the segment that starts at lines[k], for times[k] >= eps
\* (number_steps = T / t_step is then above eps, as the code asserts)
segment_rows(lines, speeds, T, t_step, k) ==
  LET vector_S == VSub(lines[k + 1], lines[k])
      norm_S == norm(vector_S)
      number_steps == FDiv(T, t_step)
      number_steps_floor == floor(number_steps)
      number_steps_ceil == ceil(number_steps)
      number_steps_decimal == FSub(number_steps, <<number_steps_floor, 1>>)
      unit_S == IF AboveEps(norm_S) THEN VScale(FDiv(One, norm_S), vector_S)
                ELSE ZeroVector
      v == VScale(speeds[k], unit_S)
      step_ranges ==
        [m \in 1..number_steps_ceil |->
           IF m = number_steps_ceil /\ AboveEps(number_steps_decimal)
           THEN FSub(<<m - 1, 1>>, FSub(One, number_steps_decimal))
           ELSE <<m - 1, 1>>]
      t_steps == [m \in 1..number_steps_ceil |-> FMul(step_ranges[m], t_step)]
      t == [m \in 1..number_steps_ceil |->
              IF m = number_steps_ceil /\ AboveEps(number_steps_decimal)
              THEN FMul(number_steps_decimal, t_step)
              ELSE t_step]
  IN [m \in 1..number_steps_ceil |->
        [s |-> VAdd(lines[k], VScale(t_steps[m], v)), v |-> v, t |-> t[m]]]

\* the rows of the segments from position k on
RECURSIVE rows_from(_, _, _, _, _)
rows_from(lines, speeds, ts, t_step, k) ==
  IF k + 1 > Len(lines) THEN <<>>
  ELSE (IF BelowEps(ts[k]) THEN <<>>
        ELSE segment_rows(lines, speeds, ts[k], t_step, k))
       \o rows_from(lines, speeds, ts, t_step, k + 1)

Raised(e) == [error |-> e, NP |-> <<>>, V_NP |-> <<>>, T_NP |-> <<>>]

\* a closing row that holds the first position
last_row_First(lines) ==
  [s |-> lines[1], v |-> ZeroVector, t |-> Zero]

\* the closing row: lines[-1], [0, 0, 0], 0
last_row(lines) ==
  [s |-> lines[Len(lines)], v |-> ZeroVector, t |-> Zero]

\* create_linespace(lines, speeds, times, time_resolution, time_step): the
\* arrays NP, V_NP, T_NP, or the exception raised
create_linespace(lines, speeds, times, time_resolution, time_step) ==
  LET ts == IF Len(times) # Len(lines) THEN computed_times(lines, speeds)
            ELSE times
      positive == {k \in DOMAIN ts : FLess(Zero, ts[k])}
      min_times == ts[CHOOSE k \in positive :
                         \A m \in positive : ~FLess(ts[m], ts[k])]
      t_step == IF time_resolution # NoneV
                THEN PowerOfTenAtLeast(FDiv(min_times, time_resolution))
                ELSE time_step
      rows == rows_from(lines, speeds, ts, t_step, 1) \o
              <<last_row(lines)>>
  IN IF Len(lines) # Len(speeds) THEN Raised("AssertionError")
     ELSE IF time_resolution # NoneV /\ positive = {} THEN Raised("ValueError")
     ELSE IF ~FLess(Zero, t_step) THEN Raised("AssertionError")
     ELSE IF Len(lines) = 0 THEN Raised("IndexError")
     ELSE [error |-> "none",
           NP |-> [m \in DOMAIN rows |-> rows[m].s],
           V_NP |-> [m \in DOMAIN rows |-> rows[m].v],
           T_NP |-> [m \in DOMAIN rows |-> rows[m].t]]

(***************************************************************************)
(* GcodeSegment.__init__ (gcode_segment.py).  A line is what GcodeParser   *)
(* hands over: a command (letter, number) and the parameters by letter.    *)
(* A number is a count of tenths, a position a triple of them, an angle a  *)
(* count of quarter turns.  A time is kept as what it is computed from:    *)
(* the square of a distance and a speed, or the milliseconds of a dwell.   *)
(* The arcs given are those whose radius, snapped end, sweep and samples   *)
(* are numbers of the model (ArcIsExact).  X_AXIS, Y_AXIS and Z_AXIS are   *)
(* the letters X, Y and Z.                                                 *)
(***************************************************************************)
POSITION_ABSOLUTE == 0

POSITION_RELATIVE == 1

\* line.get_param(k) is not None, and its value
has_param(line, k) == k \in DOMAIN line.params

get_param(line, k) == line.params[k]

\* distance / speed, dwell_msec / 1000.0 / 60.0 and 0
MoveTime(d2, speed) == [kind |-> "move", d2 |-> d2, speed |-> speed, msec |-> 0]

DwellTime(msec) == [kind |-> "dwell", d2 |-> 0, speed |-> 0, msec |-> msec]

NoTime == [kind |-> "zero", d2 |-> 0, speed |-> 0, msec |-> 0]

Minus(u, v) == [k \in 1..3 |-> u[k] - v[k]]

\* the square of np.linalg.norm
norm2(v) == v[1] * v[1] + v[2] * v[2] + v[3] * v[3]

IsSquare(n) == \E r \in 0..n : r * r = n

\* the new position of a move: the parameters, or the previous position plus
\* the parameters
new_position(line, mode, prev_pos) ==
  [k \in 1..3 |->
     LET axis == <<"X", "Y", "Z">>[k]
     IN IF ~has_param(line, axis) THEN prev_pos[k]
        ELSE IF mode = POSITION_ABSOLUTE THEN get_param(line, axis)
        ELSE prev_pos[k] + get_param(line, axis)]

\* G0, G1: the move is appended with its time; a move of no length is
\* dropped, a move at a speed that is not above EPS raises
linear_move(s, speed, prev_pos, new_pos) ==
  LET d2 == norm2(Minus(new_pos, prev_pos))
  IN IF d2 = 0 THEN s
     ELSE IF speed > 0
     THEN [s EXCEPT !.velocities = Append(@, speed),
                    !.positions = Append(@, new_pos),
                    !.times = Append(@, MoveTime(d2, speed))]
     ELSE [s EXCEPT !.raised = "ValueError"]

\* rotational_matrix(90) or rotational_matrix(-90) @ v[:2], the third entry
\* kept
quarter_turned(v, ccw) ==
  IF ccw THEN <<0 - v[2], v[1], v[3]>> ELSE <<v[2], 0 - v[1], v[3]>>

\* twice norm_S_rotated = sqrt(radius ** 2 - (0.5 * norm_S) ** 2)
twice_rise(R, vector_S) == sqrt(4 * R * R - norm2(vector_S))

\* the center of an arc given by R: on the bisector of the chord, to the
\* left of it for G3 and to the right for G2
radius_center(line, prev_pos, new_pos, ccw) ==
  LET vector_S == Minus(new_pos, prev_pos)
      norm_S == sqrt(norm2(vector_S))
      rotated == quarter_turned(vector_S, ccw)
      rise == twice_rise(get_param(line, "R"), vector_S)
  IN [k \in 1..3 |->
        prev_pos[k] + (vector_S[k] * norm_S + rotated[k] * rise) \div (2 * norm_S)]

\* the center and the radius of an arc that gives I and J, or R
center_of(line, prev_pos, new_pos, ccw) ==
  IF has_param(line, "I") /\ has_param(line, "J")
  THEN <<prev_pos[1] + get_param(line, "I"), prev_pos[2] + get_param(line, "J"),
         prev_pos[3]>>
  ELSE radius_center(line, prev_pos, new_pos, ccw)

radius_of(line, prev_pos, center_pos) ==
  IF has_param(line, "R") THEN get_param(line, "R")
  ELSE sqrt(norm2(Minus(prev_pos, center_pos)))

\* the end of the arc: moved onto the circle, along the ray from the center,
\* when it is farther from the center than the radius
snap(new_pos, center_pos, radius) ==
  LET vector_S == Minus(new_pos, center_pos)
  IN IF norm2(vector_S) > radius * radius
     THEN [k \in 1..3 |->
             center_pos[k] + (vector_S[k] * radius) \div sqrt(norm2(vector_S))]
     ELSE new_pos

\* the angle of the sweep, in quarter turns
sweep(prev_pos, new_pos, center_pos, ccw) ==
  LET vector_1 == Minus(prev_pos, center_pos)
      vector_2 == Minus(new_pos, center_pos)
      cross_12 == vector_1[1] * vector_2[2] - vector_1[2] * vector_2[1]
      dot_12 == vector_1[1] * vector_2[1] + vector_1[2] * vector_2[2]
                + vector_1[3] * vector_2[3]
      \* np.arctan2(cross_12, dot_12) with dot_12 = 0
      angle == IF cross_12 > 0 THEN 1 ELSE 0 - 1
  IN IF cross_12 = 0
     THEN (IF new_pos = prev_pos THEN 2 * pi ELSE pi)
     ELSE IF (ccw /\ angle < 0) \/ (~ccw /\ angle > 0)
          THEN (IF angle > 0 THEN 2 * pi - angle ELSE 0 - (2 * pi + angle))
          ELSE angle

\* rotational_matrix_radian(q quarter turns) @ v[:2], the third entry 0
rotate(q, v) ==
  <<cos(q) * v[1] - sin(q) * v[2], sin(q) * v[1] + cos(q) * v[2], 0>>

\* the positions of the samples of the arc
arc_positions(prev_pos, center_pos, angle, n) ==
  [k \in 1..n |->
     LET turned == rotate(0 - ((angle * k) \div n), Minus(prev_pos, center_pos))
     IN <<center_pos[1] + turned[1], center_pos[2] + turned[2], center_pos[3]>>]

\* what the arc can be computed with in the numbers of the model
ArcIsExact(s, line) ==
  LET ccw == line.command = <<"G", 3>>
      prev_pos == s.positions[Len(s.positions)]
      new_pos == new_position(line, s.position_mode, prev_pos)
      byOffsets == has_param(line, "I") /\ has_param(line, "J")
      byRadius == ~byOffsets /\ has_param(line, "R")
      vector_S == Minus(new_pos, prev_pos)
      center_pos == center_of(line, prev_pos, new_pos, ccw)
      radius == radius_of(line, prev_pos, center_pos)
      vector_2 == Minus(new_pos, center_pos)
      resolved == snap(new_pos, center_pos, radius)
      vector_1 == Minus(prev_pos, center_pos)
      vector_3 == Minus(resolved, center_pos)
  IN IF ~byOffsets /\ ~byRadius THEN TRUE
     ELSE IF byRadius /\ norm2(vector_S) = 0 THEN TRUE
     ELSE /\ byRadius =>
               /\ get_param(line, "R") >= 0
               /\ IsSquare(norm2(vector_S))
               /\ 4 * get_param(line, "R") * get_param(line, "R") >= norm2(vector_S)
               /\ IsSquare(4 * get_param(line, "R") * get_param(line, "R")
                           - norm2(vector_S))
               /\ \A k \in 1..3 :
                    (vector_S[k] * sqrt(norm2(vector_S))
                     + quarter_turned(vector_S, ccw)[k]
                       * twice_rise(get_param(line, "R"), vector_S))
                    % (2 * sqrt(norm2(vector_S))) = 0
          /\ byOffsets =>
               IF has_param(line, "R") THEN get_param(line, "R") >= 0
               ELSE IsSquare(norm2(Minus(prev_pos, center_pos)))
          /\ norm2(vector_2) > radius * radius =>
               /\ IsSquare(norm2(vector_2))
               /\ \A k \in 1..3 :
                    (vector_2[k] * radius) % sqrt(norm2(vector_2)) = 0
          /\ 0 \in {vector_1[1] * vector_3[2] - vector_1[2] * vector_3[1],
                    vector_1[1] * vector_3[1] + vector_1[2] * vector_3[2]
                    + vector_1[3] * vector_3[3]}
          /\ sweep(prev_pos, resolved, center_pos, ccw) % s.ARC_SEGMENTS = 0

\* G2, G3: the center, the end on the circle, the sweep and its samples
arc_move(s, line, speed, prev_pos, commanded, ccw) ==
  IF ~(has_param(line, "I") /\ has_param(line, "J")) /\ ~has_param(line, "R")
  THEN [s EXCEPT !.raised = "ValueError"]
  ELSE IF ~(has_param(line, "I") /\ has_param(line, "J"))
          /\ norm2(Minus(commanded, prev_pos)) = 0
  THEN [s EXCEPT !.raised = "AssertionError"]
  ELSE
    LET center_pos == center_of(line, prev_pos, commanded, ccw)
        radius == radius_of(line, prev_pos, center_pos)
        new_pos == snap(commanded, center_pos, radius)
        angle == sweep(prev_pos, new_pos, center_pos, ccw)
        samples == arc_positions(prev_pos, center_pos, angle, s.ARC_SEGMENTS)
        before(k) == IF k = 1 THEN prev_pos ELSE samples[k - 1]
        distance2(k) == norm2(Minus(samples[k], before(k)))
        locals == [prev_pos |-> prev_pos, new_pos |-> new_pos,
                   center_pos |-> center_pos, radius |-> radius,
                   angle |-> angle]
    IN IF \E k \in 1..s.ARC_SEGMENTS : distance2(k) > 0 /\ speed <= 0
       THEN [s EXCEPT !.raised = "ValueError"]
       ELSE [s EXCEPT
               !.velocities = @ \o [k \in 1..s.ARC_SEGMENTS |-> speed],
               !.positions = @ \o samples,
               !.times = @ \o [k \in 1..s.ARC_SEGMENTS |->
                                 IF distance2(k) = 0 THEN NoTime
                                 ELSE MoveTime(distance2(k), speed)],
               !.arc = locals]

\* G4: P milliseconds plus S seconds at the position reached
dwell(s, line) ==
  LET dwell_msec == (IF has_param(line, "P") THEN get_param(line, "P") ELSE 0)
                    + (IF has_param(line, "S") THEN get_param(line, "S") * 1000
                       ELSE 0)
  IN IF dwell_msec > 0
     THEN [s EXCEPT !.positions = Append(@, s.positions[Len(s.positions)]),
                    !.velocities = Append(@, 0),
                    !.times = Append(@, DwellTime(dwell_msec))]
     ELSE s

\* the body of the loop over the lines of the file
parse_line(s, line) ==
  LET command == line.command
      is_linear_move == command \in {<<"G", 0>>, <<"G", 1>>}
      is_arc_move == command \in {<<"G", 2>>, <<"G", 3>>}
      is_counterclockwise == command = <<"G", 3>>
      s1 == [s EXCEPT
               !.line = line,
               !.fline_position_map = Append(@, Len(s.positions)),
               !.position_mode = IF command = <<"G", 90>> THEN POSITION_ABSOLUTE
                                 ELSE IF command = <<"G", 91>>
                                 THEN POSITION_RELATIVE
                                 ELSE @]
      prev_pos == s.positions[Len(s.positions)]
      speed == IF has_param(line, "F") THEN get_param(line, "F")
               ELSE s.DEFAULT_SPEED
      s2 == [s1 EXCEPT !.DEFAULT_SPEED = speed]
      new_pos == new_position(line, s.position_mode, prev_pos)
  IN IF is_linear_move \/ is_arc_move
     THEN IF /\ has_param(line, "F")
             /\ is_linear_move
             /\ \A k \in {"X", "Y", "Z", "E"} : ~has_param(line, k)
          THEN s2
          ELSE IF is_linear_move
          THEN linear_move(s2, speed, prev_pos, new_pos)
          ELSE arc_move(s2, line, speed, prev_pos, new_pos, is_counterclockwise)
     ELSE IF command = <<"G", 4>> THEN dwell(s1, line)
     ELSE s1

\* after the last line: one velocity and one time for the last position
end_of_file(s) ==
  [s EXCEPT
     !.velocities = IF Len(s.positions) > Len(@) THEN Append(@, 0) ELSE @,
     !.times = IF Len(s.positions) > Len(@) THEN Append(@, NoTime) ELSE @,
     !.done = TRUE]

(***************************************************************************)
(* The lines of text given to the program, as cli.read_gcode_file reads    *)
(* them and hands them to parse_gcode, and the axis letters cli.main sets. *)
(***************************************************************************)
TextLines == {
    <<"G", "9", "0">>,
    <<"G", "9", "1">>,
    <<"G", "0", " ", "X", "1">>,
    <<"G", "1", " ", "X", "2", " ", "Y", "-", "1">>,
    <<"G", "1", " ", "Y", "1">>,
    <<"g", "1", " ", "z", "0", ".", "5", " ", "f", "5", "0">>,
    <<"G", "1", " ", "X", "1", " ", "F", "0">>,
    <<"G", "1", " ", "X", "-", "1", " ", "F", "-", "5">>,
    <<"G", "1", " ", "F", "2", "0">>,
    <<"G", "1", " ", "X">>,
    <<"G", "1", " ", "A", "3">>,
    <<"G", "0", "0", " ", "Y", "1">>,
    <<"G", "0", "1", " ", "X", "1">>,
    <<"G", "2", " ", "X", "2", " ", "I", "1", " ", "J", "0">>,
    <<"G", "3", " ", "Y", "2", " ", "I", "0", " ", "J", "1">>,
    <<"G", "0", "2", " ", "X", "2", " ", "I", "1">>,
    <<"G", "0", "3", " ", "Y", "2", " ", "J", "1">>,
    <<"G", "2", " ", "X", "1", " ", "R", "1">>,
    <<"G", "3", " ", "X", "1", " ", "Y", "1">>,
    <<"G", "4", " ", "P", "5", "0", "0">>,
    <<"G", "4", " ", "S", "1">>,
    <<"G", "4">>,
    <<"M", "1", "0", "4", " ", "S", "2", "0", "0">>,
    <<"G", "2", "8">>,
    <<"X", "1", " ", "Y", "2">>,
    <<"H", "9", "9", " ", "X", "1", "0", " ", "Y", "2", "0", " ", "Z", "3", "0">>,
    <<"X", "1", " ", ";", " ", "G", "1", " ", "Y", "2">>,
    <<"m", "3", " ", "G", "1", " ", "X", " ", "+", "2">>,
    <<";", "T", ":", "a", ":", "B", ",", " ", "u", ":", "2">>,
    <<>>,
    <<";", " ", "C", "T", "S", ":", "2", "5", "0">>,
    <<"G", "1", " ", "X", "3", " ", ";", " ", "C", "T", "S", ":", "2", "5">>,
    <<"G", "1", " ", "Y", "2", " ", ";", "s", "p", "e", "e", "d", "t", "a", "g", ":", "1", "0", "0", ",", " ", "a", ":", "b">>
  }

\* [parse_gcode(line) for line in f]
Commands == {parse_gcode(l) : l \in TextLines}

\* the -x, -y, -z options
AxisLetters == {<<"x", "y", "z">>, <<"x", "a", "z">>, <<"y", "x", "z">>}

\* the number of lines of the file
MaxLines == 3

Init ==
  /\ position = [a \in Axes |-> Num(0)]
  /\ positionSystem = ABSOLUTE
  /\ feedrate = Num(1000)
  /\ geometry = <<>>
  /\ \E k \in AxisLetters : x_axis = k[1] /\ y_axis = k[2] /\ z_axis = k[3]
  /\ lineCount = 0
  /\ x = GcodeCommand
  /\ curve = NoneV
  /\ num_points = 0
  /\ points = <<>>
  /\ call = NoneV
  /\ trajectory = NoneV
  /\ segment = NoneV

Process ==
  /\ \E cmd \in Commands : lineCount < MaxLines /\ process(cmd)
  /\ UNCHANGED <<curve, num_points, points, call, trajectory, segment>>

Next == Process

Spec == Init /\ [][Next]_vars

(***************************************************************************)
(* The rasterization of one emitted Arc by cli.gcode_to_points: the Arc is *)
(* any that GeometryParser.G2 can emit with start and end on the axes      *)
(* through its center, the sample count is the option --curve_resolution.  *)
(***************************************************************************)
Centers == {<<0, 0>>, <<10, 0>>}

Radii == {0, 10, 20}

Heights == {0, 5}

AxisDirections == {<<1, 0>>, <<0, 1>>, <<0 - 1, 0>>, <<0, 0 - 1>>}

Arcs ==
  {Arc(<<Num(c[1] + rs * us[1]), Num(c[2] + rs * us[2]), Num(0)>>,
       <<Num(c[1] + re * ue[1]), Num(c[2] + re * ue[2]), Num(h)>>,
       Num(1000), dir, <<Num(c[1]), Num(c[2])>>) :
     c \in Centers, rs \in Radii, re \in Radii, us \in AxisDirections,
     ue \in AxisDirections, h \in Heights, dir \in {"cw", "ccw"}}

\* the largest --curve_resolution given
MaxPoints == 3

ArcInit ==
  /\ position = [a \in Axes |-> Num(0)]
  /\ positionSystem = ABSOLUTE
  /\ feedrate = Num(1000)
  /\ geometry = <<>>
  /\ x_axis = "x" /\ y_axis = "y" /\ z_axis = "z"
  /\ lineCount = 0
  /\ x = GcodeCommand
  /\ curve \in Arcs
  /\ num_points \in 1..MaxPoints
  /\ points = <<>>
  /\ call = NoneV
  /\ trajectory = NoneV
  /\ segment = NoneV

\* points = curve.compute_points(curve_resolution)
ComputePoints ==
  /\ points = <<>>
  /\ points' = compute_points(curve, num_points)
  /\ UNCHANGED <<position, positionSystem, feedrate, geometry,
                 x_axis, y_axis, z_axis, lineCount, x, curve, num_points,
                 call, trajectory, segment>>

ArcNext == ComputePoints

ArcSpec == ArcInit /\ [][ArcNext]_vars

(***************************************************************************)
(* One call of create_linespace: the positions are points of a small grid  *)
(* with every step between neighbours of whole length, the speeds include  *)
(* zero and a negative one, the times are left out or passed with one per  *)
(* position.                                                               *)
(***************************************************************************)
Point(a, b, c) == <<<<a, 1>>, <<b, 1>>, <<c, 1>>>>

Positions == {Point(0, 0, 0), Point(1, 0, 0), Point(1, 0, 2)}

Speeds == {Zero, <<2, 1>>, <<0 - 1, 1>>}

PassedTimes == {Zero, <<1, 4>>}

TimeResolutions == {NoneV, <<10, 1>>}

TimeSteps == {<<1, 10>>, <<3, 10>>, Zero}

\* the largest number of positions passed
MaxPositions == 3

\* the square of the distance of two positions is the square of a fraction
WholeStep(p, q) ==
  LET d == VSub(q, p)
      sq == FAdd(FMul(d[1], d[1]), FAdd(FMul(d[2], d[2]), FMul(d[3], d[3])))
  IN /\ \E r \in 0..sq[1] : r * r = sq[1]
     /\ \E r \in 0..sq[2] : r * r = sq[2]

LinInit ==
  /\ position = [a \in Axes |-> Num(0)]
  /\ positionSystem = ABSOLUTE
  /\ feedrate = Num(1000)
  /\ geometry = <<>>
  /\ x_axis = "x" /\ y_axis = "y" /\ z_axis = "z"
  /\ lineCount = 0
  /\ x = GcodeCommand
  /\ curve = NoneV
  /\ num_points = 0
  /\ points = <<>>
  /\ \E n \in 0..MaxPositions :
       \E ls \in [1..n -> Positions], ss \in [1..n -> Speeds],
          ts \in {<<>>} \cup [1..n -> PassedTimes],
          res \in TimeResolutions, step \in TimeSteps :
         /\ \A k \in 1..(n - 1) : WholeStep(ls[k], ls[k + 1])
         /\ call = [lines |-> ls, speeds |-> ss, times |-> ts,
                    time_resolution |-> res, time_step |-> step]
  /\ trajectory = NoneV
  /\ segment = NoneV

\* NP, V_NP, T_NP = create_linespace(lines, speeds, times, ...)
CreateLinespace ==
  /\ trajectory = NoneV
  /\ trajectory' = create_linespace(call.lines, call.speeds, call.times,
                                call.time_resolution, call.time_step)
  /\ UNCHANGED <<position, positionSystem, feedrate, geometry,
                 x_axis, y_axis, z_axis, lineCount, x,
                 curve, num_points, points, call, segment>>

LinNext == CreateLinespace

LinSpec == LinInit /\ [][LinNext]_vars

(***************************************************************************)
(* The construction of a GcodeSegment from a file of parsed lines, with    *)
(* the option arc_segments.                                                *)
(***************************************************************************)
ParsedLine(letter, number, params) ==
  [command |-> <<letter, number>>, params |-> params]

ParsedLines == {
    ParsedLine("G", 90, <<>>),
    ParsedLine("G", 91, <<>>),
    ParsedLine("G", 1, ("X" :> 10)),
    ParsedLine("G", 1, ("Y" :> 10) @@ ("Z" :> 5)),
    ParsedLine("G", 0, ("X" :> 0) @@ ("Y" :> 0)),
    ParsedLine("G", 1, ("X" :> 20) @@ ("F" :> 0)),
    ParsedLine("G", 1, ("F" :> 3000)),
    ParsedLine("G", 2, ("X" :> 10) @@ ("Y" :> 10) @@ ("I" :> 10) @@ ("J" :> 0)),
    ParsedLine("G", 3, ("X" :> 10) @@ ("Y" :> 10) @@ ("I" :> 10) @@ ("J" :> 0)),
    ParsedLine("G", 2, ("X" :> 20) @@ ("I" :> 10) @@ ("J" :> 0)),
    ParsedLine("G", 3, ("X" :> 20) @@ ("I" :> 10) @@ ("J" :> 0)),
    ParsedLine("G", 2, ("I" :> 10) @@ ("J" :> 0)),
    ParsedLine("G", 3, ("I" :> 10) @@ ("J" :> 0)),
    ParsedLine("G", 2, ("X" :> 30) @@ ("I" :> 10) @@ ("J" :> 0)),
    ParsedLine("G", 3, ("X" :> 15) @@ ("I" :> 10) @@ ("J" :> 0)),
    ParsedLine("G", 2, ("X" :> 10) @@ ("Y" :> 5) @@ ("I" :> 10) @@ ("J" :> 0)),
    ParsedLine("G", 2, ("X" :> 10)),
    ParsedLine("G", 3, ("X" :> 10) @@ ("I" :> 10)),
    ParsedLine("G", 2, ("X" :> 20) @@ ("R" :> 10)),
    ParsedLine("G", 3, ("R" :> 10)),
    ParsedLine("G", 4, ("P" :> 5000)),
    ParsedLine("G", 4, ("S" :> 10)),
    ParsedLine("G", 4, <<>>),
    ParsedLine("M", 104, ("S" :> 2000))
  }

\* the values given to the option arc_segments
ArcSegments == {1, 2, 4}

\* the number of lines of the file
MaxSegLines == 3

SegInit ==
  /\ position = [a \in Axes |-> Num(0)]
  /\ positionSystem = ABSOLUTE
  /\ feedrate = Num(1000)
  /\ geometry = <<>>
  /\ x_axis = "x" /\ y_axis = "y" /\ z_axis = "z"
  /\ lineCount = 0
  /\ x = GcodeCommand
  /\ curve = NoneV
  /\ num_points = 0
  /\ points = <<>>
  /\ call = NoneV
  /\ trajectory = NoneV
  /\ \E n \in ArcSegments :
       segment = [position_mode |-> POSITION_ABSOLUTE,
                  DEFAULT_SPEED |-> 2000,
                  ARC_SEGMENTS |-> n,
                  positions |-> <<<<0, 0, 0>>>>,
                  velocities |-> <<>>,
                  times |-> <<>>,
                  fline_position_map |-> <<>>,
                  line |-> NoneV,
                  arc |-> NoneV,
                  raised |-> "none",
                  done |-> FALSE]

\* one turn of the loop over the lines of the file
ParseLine ==
  /\ segment.raised = "none"
  /\ ~segment.done
  /\ Len(segment.fline_position_map) < MaxSegLines
  /\ \E line \in ParsedLines :
       /\ line.command \in {<<"G", 2>>, <<"G", 3>>} => ArcIsExact(segment, line)
       /\ segment' = parse_line(segment, line)
  /\ UNCHANGED <<position, positionSystem, feedrate, geometry,
                 x_axis, y_axis, z_axis, lineCount, x,
                 curve, num_points, points, call, trajectory>>

\* the end of the file
EndOfFile ==
  /\ segment.raised = "none"
  /\ ~segment.done
  /\ segment' = end_of_file(segment)
  /\ UNCHANGED <<position, positionSystem, feedrate, geometry,
                 x_axis, y_axis, z_axis, lineCount, x,
                 curve, num_points, points, call, trajectory>>

SegNext == ParseLine \/ EndOfFile

SegSpec == SegInit /\ [][SegNext]_vars

(***************************************************************************)
(* Vocabulary of the properties.  x' is the command a step has processed.  *)
(***************************************************************************)
LinearCodes == {<<"G", "0">>, <<"G", "1">>}

ArcCodes == {<<"G", "2">>, <<"G", "3">>}

\* the last segment of a non-empty geometry
Last(g) == g[Len(g)]

\* the letter the command gives an axis under: the configured letter, and
\* the axis's own letter when the configured one is not on the line
LetterOf(args, a, kx, ky, kz) ==
  LET k == IF a = "x" THEN kx ELSE IF a = "y" THEN ky ELSE kz
  IN IF k \in DOMAIN args THEN k ELSE a

\* the position a move resolves to, axis by axis
Resolved(args, a, mode, pos, kx, ky, kz) ==
  LET l == LetterOf(args, a, kx, ky, kz)
  IN IF mode = ABSOLUTE
     THEN IF l \in DOMAIN args THEN args[l] ELSE pos[a]
     ELSE Num(pos[a].v + (IF l \in DOMAIN args THEN args[l].v ELSE 0))

C2_Continuity ==
  /\ Len(geometry) >= 1 => geometry[1].start = Origin
  /\ \A n \in 1..(Len(geometry) - 1) : geometry[n + 1].start = geometry[n].end

\* a line, an arc and a line that all moved
C2_Witness ==
  /\ Len(geometry) = 3
  /\ geometry[2].curve = "Arc"
  /\ \A n \in 1..3 : geometry[n].start # geometry[n].end

\* C3: an f parameter is the feedrate of the segment of its move and becomes
\* the persisted feedrate; a move without f uses the persisted feedrate.
C3_FeedratePersisted ==
  [][x'.cmd \in LinearCodes \cup ArcCodes =>
       IF "f" \in DOMAIN x'.args
       THEN /\ Last(geometry').feedrate = x'.args["f"]
            /\ feedrate' = x'.args["f"]
       ELSE Last(geometry').feedrate = feedrate]_vars

\* C4: the Arc of a G2/G3 command that gives i or j has its center at the
\* pre-move position plus (i, j) in both modes, starts at the pre-move
\* position, ends at the resolved target, and is cw for G2 and ccw for G3.
C4_ArcCenterIncremental ==
  [][(x'.cmd \in ArcCodes /\ {"i", "j"} \cap DOMAIN x'.args # {}) =>
       LET arc == Last(geometry')
       IN /\ arc.curve = "Arc"
          /\ arc.start = xyz(position)
          /\ arc.end = xyz(position')
          /\ arc.dir = (IF x'.cmd = <<"G", "2">> THEN "cw" ELSE "ccw")
          /\ arc.center[1].v = position["x"].v + get(x'.args, "i", Num(0)).v
          /\ arc.center[2].v = position["y"].v + get(x'.args, "j", Num(0)).v]_vars

\* C5: a line whose comment carries the tag of the reserved key sets the
\* persisted feedrate to the tag's value; another tag leaves it alone.
C5_TagSetsFeedrate ==
  [][IF lower(CTS) \in DOMAIN x'.tag
     THEN feedrate' = x'.tag[lower(CTS)]
     ELSE feedrate' = feedrate]_vars

\* the code of a command without the leading zeros of its number
RECURSIVE Canonical(_)
Canonical(cmd) ==
  IF Len(cmd) > 2 /\ cmd[2] = "0"
  THEN Canonical(<<cmd[1]>> \o SubSeq(cmd, 3, Len(cmd)))
  ELSE cmd

\* C6: a command code written with leading zeros (G00, G01, G02, G03) does
\* what the code without them does.
C6_LeadingZerosSameCommand ==
  [][(x'.cmd # None /\ Canonical(x'.cmd) # x'.cmd /\ hasattr(Canonical(x'.cmd)))
       => method(Canonical(x'.cmd), x'.args)]_vars

\* a Dwell segment; its duration is milliseconds / 1000 seconds
Dwell(milliseconds) == [curve |-> "Dwell", milliseconds |-> milliseconds]

\* the p of a G4 command plus 1000 times its s, in milliseconds
DwellOf(args) ==
  (IF "p" \in DOMAIN args THEN args["p"].v ELSE 0)
  + (IF "s" \in DOMAIN args THEN 1000 * args["s"].v ELSE 0)

\* C7: a G4 command emits exactly one Dwell of p + 1000 s milliseconds when
\* that total exceeds zero and none otherwise, and does not move.
C7_DwellEmitted ==
  [][x'.cmd = <<"G", "4">> =>
       /\ position' = position
       /\ geometry' = IF DwellOf(x'.args) > 0
                      THEN Append(geometry, Dwell(DwellOf(x'.args)))
                      ELSE geometry]_vars

\* C8: the mode starts Absolute; G90 sets Absolute and G91 Relative, without
\* a segment and without a change of position or feedrate; every other
\* command leaves the mode as it is.
C8_ModeOnlyByG90G91 ==
  /\ positionSystem = ABSOLUTE
  /\ [][/\ x'.cmd = <<"G", "9", "0">> => positionSystem' = ABSOLUTE
        /\ x'.cmd = <<"G", "9", "1">> => positionSystem' = RELATIVE
        /\ x'.cmd \in {<<"G", "9", "0">>, <<"G", "9", "1">>} =>
             /\ geometry' = geometry
             /\ position' = position
             /\ feedrate' = feedrate
        /\ x'.cmd \notin {<<"G", "9", "0">>, <<"G", "9", "1">>} =>
             positionSystem' = positionSystem]_vars

\* G91 has been processed after two segments were emitted
C8_Witness ==
  /\ x.cmd = <<"G", "9", "1">>
  /\ positionSystem = RELATIVE
  /\ Len(geometry) = 2

\* C9: a command whose code has no handler, or that has no code, emits no
\* segment and leaves position and mode unchanged; the loop goes on to the
\* next command.
C9_UnhandledIsNoOp ==
  [][(x'.cmd = None \/ ~hasattr(x'.cmd)) =>
       /\ geometry' = geometry
       /\ position' = position
       /\ positionSystem' = positionSystem
       /\ lineCount' = lineCount + 1
       /\ (lineCount < MaxLines => ENABLED Process)']_vars

\* an axis-only line has been processed in Relative mode after a move
C9_Witness ==
  /\ x.cmd = None
  /\ DOMAIN x.args = {"x", "y"}
  /\ positionSystem = RELATIVE
  /\ Len(geometry) = 1
  /\ xyz(position) # Origin

\* C10: every Line and Arc emitted has a feedrate above zero.
C10_FeedratePositive ==
  \A n \in 1..Len(geometry) :
    geometry[n].curve \in {"Line", "Arc"} => geometry[n].feedrate.v > 0

\* C11: a G2/G3 command that gives neither a center offset (i, j) nor a
\* radius (r) is an error: no Arc is emitted for it and the run stops there.
C11_MissingArcSpecIsError ==
  [][(x'.cmd \in ArcCodes /\ DOMAIN x'.args \cap {"i", "j", "r"} = {}) =>
       /\ geometry' = geometry
       /\ (~ENABLED Process)']_vars

\* the numbers of a list of coordinates
Values(p) == [k \in DOMAIN p |-> p[k].v]

\* C12: for every Arc and every sample count, the first rasterized point is
\* the start of the Arc and the last rasterized point is its end.
C12_ArcRoundTrip ==
  points # <<>> =>
    /\ OnGrid(points[1])
    /\ Coordinates(points[1]) = Values(curve.start)
    /\ OnGrid(Last(points))
    /\ Coordinates(Last(points)) = Values(curve.end)

\* the sum of the first n entries of a sequence of fractions
RECURSIVE SumTo(_, _)
SumTo(t, n) == IF n = 0 THEN Zero ELSE FAdd(SumTo(t, n - 1), t[n])

\* the call has returned its arrays
Returned == trajectory # NoneV /\ trajectory.error = "none"

\* C13: for every non-empty input the last sample of the output has the last
\* raw position, the zero velocity and the time delta 0, and the elapsed
\* time along the output never decreases.
C13_TrajectoryEnd ==
  (Returned /\ Len(call.lines) > 0) =>
    /\ Last(trajectory.NP) = Last(call.lines)
    /\ Last(trajectory.V_NP) = ZeroVector
    /\ Last(trajectory.T_NP) = Zero
    /\ \A n \in 1..Len(trajectory.T_NP) :
         ~FLess(SumTo(trajectory.T_NP, n), SumTo(trajectory.T_NP, n - 1))

\* three positions, both segments sampled, the second with a fractional
\* last step
C13_Witness ==
  /\ Returned
  /\ Len(call.lines) = 3
  /\ call.times = <<>>
  /\ Len(trajectory.NP) > 5
  /\ \E n \in 1..(Len(trajectory.T_NP) - 1) :
       trajectory.T_NP[n] # Zero /\ FLess(trajectory.T_NP[n], trajectory.T_NP[1])

\* C14: resampling fails with an error, and returns no trajectory, whenever
\* two consecutive raw positions are apart while the speed given for the
\* segment between them is zero or negative.
C14_InvalidKinematicsRaises ==
  (/\ trajectory # NoneV
   /\ Len(call.speeds) = Len(call.lines)
   /\ \E k \in 1..(Len(call.lines) - 1) :
        /\ AboveEps(norm(VSub(call.lines[k + 1], call.lines[k])))
        /\ ~AboveEps(call.speeds[k]))
  => trajectory.error # "none"

\* the text of a line before its first ";"
CodeText(l) ==
  LET semis == {k \in DOMAIN l : l[k] = ";"}
  IN IF semis = {} THEN l
     ELSE SubSeq(l, 1, (CHOOSE k \in semis : \A m \in semis : k <= m) - 1)

\* where a command token (G or M, either case, and digits) starts, and where
\* the token that starts at k ends
TokenStarts(s) ==
  {k \in DOMAIN s : /\ s[k] \in {"G", "M", "g", "m"}
                    /\ k < Len(s)
                    /\ IsDigit(s[k + 1])}

TokenEnd(s, k) ==
  CHOOSE e \in (k + 1)..Len(s) :
    /\ \A m \in (k + 1)..e : IsDigit(s[m])
    /\ e = Len(s) \/ ~IsDigit(s[e + 1])

\* the characters of s from index k on that are in no command token
RECURSIVE OutsideTokens(_, _)
OutsideTokens(s, k) ==
  IF k > Len(s) THEN <<>>
  ELSE IF \E a \in TokenStarts(s) : a <= k /\ k <= TokenEnd(s, a)
       THEN OutsideTokens(s, k + 1)
       ELSE <<s[k]>> \o OutsideTokens(s, k + 1)

\* what C15 says of a line: the command and the parameters
Tokenized(l) ==
  LET code == CodeText(l)
      rest == lower(OutsideTokens(code, 1))
      first == CHOOSE k \in TokenStarts(code) :
                 \A m \in TokenStarts(code) : k <= m
      numbered(a) == {k \in DOMAIN rest : rest[k] = a /\ axis_number(rest, k).ok}
  IN [cmd |-> IF TokenStarts(code) = {} THEN None
              ELSE upper(SubSeq(code, first, TokenEnd(code, first))),
      args |-> [a \in Range(LowerLetters) \cap Range(rest) |->
                  IF numbered(a) = {} THEN True
                  ELSE Num(axis_number(rest,
                             CHOOSE k \in numbered(a) :
                               \A m \in numbered(a) : k <= m).v)]]

\* the lines of the file with what parse_gcode returns for each and what C15
\* says of each
TokenizedLines ==
  {[parsed |-> parse_gcode(l), said |-> Tokenized(l)] : l \in TextLines}

\* C15: the command of a line is its first G or M token before the first
\* ";", in either case, or absent; its parameters are the letters a-z of
\* that text with the G and M tokens removed, a letter followed by a signed
\* number (after optional whitespace) with that number, a letter without
\* one with the flag True; text after the first ";" adds to neither.
C15_Tokenizer ==
  \A r \in TokenizedLines :
    r.parsed = x => (x.cmd = r.said.cmd /\ x.args = r.said.args)

\* the line H99 X10 Y20 Z30 has been processed
C15_Witness ==
  /\ lineCount > 0
  /\ x.cmd = None
  /\ x.args = ("h" :> Num(990)) @@ ("x" :> Num(100)) @@ ("y" :> Num(200))
               @@ ("z" :> Num(300))

\* what C16 says of one piece of a comment: the one-entry mapping of a piece
\* with a ":", split at its first ":", or nothing
SaidTagOfPiece(c) ==
  LET colons == {k \in DOMAIN c : c[k] = ":"}
      k == CHOOSE k \in colons : \A m \in colons : k <= m
      raw_value == strip(SubSeq(c, k + 1, Len(c)))
  IN IF colons = {} THEN <<>>
     ELSE (lower(strip(SubSeq(c, 1, k - 1))) :>
             (IF float(raw_value).ok THEN Num(float(raw_value).v)
              ELSE Str(raw_value)))

\* the fold of C16 over the pieces, from the left, a later key overwriting
RECURSIVE SaidTags(_)
SaidTags(pieces) ==
  IF Len(pieces) = 0 THEN <<>>
  ELSE update(SaidTags(SubSeq(pieces, 1, Len(pieces) - 1)),
              SaidTagOfPiece(pieces[Len(pieces)]))

\* C16: the tag mapping of a comment is the fold, from the left, over its
\* comma-separated pieces: a piece with a ":" is split at its first ":" only
\* and maps the lower-cased trimmed text before it to the trimmed text after
\* it (the whole rest, as written, or its number when it is one), a later
\* key overwrites an earlier one, a piece without ":" adds nothing.
C16_TagFold ==
  x.comment # None => x.tag = SaidTags(split(x.comment, ","))

\* every coordinate of a point is a number
Numeric(p) == \A k \in DOMAIN p : p[k].t = "num"

\* C20: after any sequence of commands every coordinate of the position and
\* of the start and the end of every emitted Line and Arc is a number; an
\* axis letter the tokenizer recorded as a flag only is treated as an omitted
\* axis, it neither changes nor replaces the coordinate.
C20_CoordinatesAreNumbers ==
  [][/\ Numeric(position')
     /\ \A n \in 1..Len(geometry') :
          geometry'[n].curve \in {"Line", "Arc"} =>
            Numeric(geometry'[n].start) /\ Numeric(geometry'[n].end)
     /\ \A a \in Axes :
          LET l == LetterOf(x'.args, a, x_axis, y_axis, z_axis)
          IN (l \in DOMAIN x'.args /\ x'.args[l].t = "bool") =>
               position'[a] = position[a]]_vars

\* the traversal times of the call (passed, or distance / speed) and its
\* step size
TimesOf(c) ==
  IF Len(c.times) = Len(c.lines) THEN c.times
  ELSE computed_times(c.lines, c.speeds)

StepOf(c) ==
  IF c.time_resolution = NoneV THEN c.time_step
  ELSE LET ts == TimesOf(c)
           m == CHOOSE m \in DOMAIN ts :
                  /\ FLess(Zero, ts[m])
                  /\ \A k \in DOMAIN ts : FLess(Zero, ts[k]) => ~FLess(ts[k], ts[m])
       IN PowerOfTenAtLeast(FDiv(ts[m], c.time_resolution))

\* the least whole number that is not below the fraction a >= 0
LeastWholeAbove(a) ==
  CHOOSE n \in 0..(a[1] + 1) : ~FLess(<<n, 1>>, a) /\ FLess(<<n - 1, 1>>, a)

\* the number of samples C19 gives segment k, and the samples before it
SamplesOf(c, k) ==
  IF FLess(Zero, TimesOf(c)[k])
  THEN LeastWholeAbove(FDiv(TimesOf(c)[k], StepOf(c)))
  ELSE 0

RECURSIVE SamplesBefore(_, _)
SamplesBefore(c, k) ==
  IF k = 1 THEN 0 ELSE SamplesBefore(c, k - 1) + SamplesOf(c, k - 1)

ArcStep ==
  /\ segment # NoneV
  /\ Len(segment'.fline_position_map) = Len(segment.fline_position_map) + 1
  /\ segment'.line.command \in {<<"G", 2>>, <<"G", 3>>}
  /\ segment'.raised = "none"

\* the positions a step appends
Appended == SubSeq(segment'.positions, Len(segment.positions) + 1,
                   Len(segment'.positions))

\* the quarter turns from the start to the end of the arc about its center,
\* counter-clockwise, a whole turn when the two lie in one direction
TurnsCounterClockwise(arc) ==
  LET vector_1 == Minus(arc.prev_pos, arc.center_pos)
      vector_2 == Minus(arc.new_pos, arc.center_pos)
      cross_12 == vector_1[1] * vector_2[2] - vector_1[2] * vector_2[1]
      dot_12 == vector_1[1] * vector_2[1] + vector_1[2] * vector_2[2]
  IN IF cross_12 > 0 THEN 1
     ELSE IF cross_12 < 0 THEN 3
     ELSE IF dot_12 < 0 THEN 2
     ELSE 4

\* the samples of the arc swept in the direction of the command: clockwise
\* for G2, counter-clockwise for G3
Commanded(arc, ccw, n) ==
  LET turns == IF ccw THEN TurnsCounterClockwise(arc)
               ELSE IF TurnsCounterClockwise(arc) = 4 THEN 0 - 4
               ELSE TurnsCounterClockwise(arc) - 4
  IN [k \in 1..n |->
        LET turned == rotate((turns * k) \div n,
                             Minus(arc.prev_pos, arc.center_pos))
        IN <<arc.center_pos[1] + turned[1], arc.center_pos[2] + turned[2],
             arc.center_pos[3]>>]

\* the same line with the other of G2 and G3
Opposite(line) ==
  [line EXCEPT !.command = IF @ = <<"G", 2>> THEN <<"G", 3>> ELSE <<"G", 2>>]

\* C17: every arc is rasterized in the direction of its command, clockwise
\* for G2 and counter-clockwise for G3, with or without a fold, on a half
\* circle and on a full circle; and a G2 and a G3 with the same start, end and
\* center do not give the same positions where the two directions pass
\* through different points
C17_SweepDirection ==
  [][ArcStep =>
        LET arc == segment'.arc
            line == segment'.line
            ccw == line.command = <<"G", 3>>
            n == segment.ARC_SEGMENTS
        IN /\ Appended = Commanded(arc, ccw, n)
           /\ (/\ arc.radius > 0
               /\ Commanded(arc, ccw, n) # Commanded(arc, ~ccw, n)
               /\ ArcIsExact(segment, Opposite(line)))
              => parse_line(segment, Opposite(line)).positions
                   # segment'.positions]_vars

\* C18: after an arc is resolved its end is as far from the center as its
\* start, whether the commanded end was farther from the center than the
\* radius or nearer
C18_EndOnCircle ==
  [][ArcStep =>
        norm2(Minus(segment'.arc.new_pos, segment'.arc.center_pos))
          = norm2(Minus(segment'.arc.prev_pos, segment'.arc.center_pos))]_vars

====
